---- MODULE Spec2Model ----
(***************************************************************************)
(* A model of the NEO database (database.py), its filters and limiter      *)
(* (filters.py) and the records they work on (models.py).                  *)
(*                                                                         *)
(* Objects are identified by their position in the collection handed to    *)
(* NEODatabase: a reference to a NearEarthObject is its index in neos, a   *)
(* reference to a CloseApproach is its index in approaches, and None is 0. *)
(***************************************************************************)
EXTENDS Integers, Sequences, FiniteSets, TLC

VARIABLES
    neos,            \* self._neos: the NearEarthObjects, in iteration order
    approaches,      \* self._approaches: the CloseApproaches, in iteration order
    _neo_name_dict,  \* self._neo_name_dict: name -> index of a NEO
    _neo_des_dict,   \* self._neo_des_dict: designation -> index of a NEO
    pc,              \* "new": NEODatabase(...) not yet called; "ready"; "failed"
    error,           \* the exception NEODatabase.__init__ raised, or "none"
    result,          \* the last point lookup and what it returned
    args,            \* the options given to create_filters, or the default query()
    filters,         \* the argument of the running query
    qstate,          \* the query generator: "none", "suspended", "exhausted", "raised"
    qpos,            \* how many approaches the query generator has taken from self._approaches
    qyielded,        \* the approaches the query generator has yielded, in order
    n,               \* the n given to limit
    lstate,          \* what limit returned: "none", "islice", "iterator"
    lcnt,            \* the islice's count of values taken from its iterator
    out,             \* the approaches the consumer has received, in order
    cstate,          \* the consumer's last next(): "open", "stopped", "raised"
    neo_data,        \* the keyword arguments of each NearEarthObject(...) made, in order
    cad_data,        \* the records of the close approach file, in file order
    streams          \* the generators of the queries made side by side

vars == <<neos, approaches, _neo_name_dict, _neo_des_dict, pc, error, result,
          args, filters, qstate, qpos, qyielded, n, lstate, lcnt, out, cstate,
          neo_data, cad_data, streams>>

dbvars == <<neos, approaches, _neo_name_dict, _neo_des_dict, pc, error>>
streamvars == <<args, filters, qstate, qpos, qyielded, n, lstate, lcnt, out, cstate>>
auxvars == <<neo_data, cad_data, streams>>

(***************************************************************************)
(* Bounds of the model.                                                    *)
(***************************************************************************)
MaxNeos == 3
MaxApproaches == 3
MaxActive == 2
MaxLimit == 3
MaxStreams == 2

(***************************************************************************)
(* Values.                                                                 *)
(***************************************************************************)
\* The None reference of CloseApproach.neo and of a failed lookup.
None == 0

\* float('nan'), the diameter of a NEO whose diameter is unknown.
NaN == -1

\* NearEarthObject.name when the NEO has no name.
NoneName == "<None>"

\* Python values that differ in type are records tagged with the type: None,
\* a float, a bool, an int, a datetime.date (v is the day), a datetime.datetime
\* at midnight of day v, a str spelling the number v, a str spelling the day v
\* as YYYY-MM-DD.
NoneV == [t |-> "None", v |-> 0]
Float(x) == [t |-> "float", v |-> x]
Bool(b) == [t |-> "bool", v |-> IF b THEN 1 ELSE 0]
IntV(k) == [t |-> "int", v |-> k]
Date(d) == [t |-> "date", v |-> d]
DateTime(d) == [t |-> "datetime", v |-> d]
NumStr(x) == [t |-> "numstr", v |-> x]
DateStr(d) == [t |-> "datestr", v |-> d]
ValueError == [t |-> "ValueError", v |-> 0]

SeqsUpTo(k, S) == UNION {[1..m -> S] : m \in 0..k}

\* Comparisons of Python floats: every ordered comparison with NaN is False
\* and NaN != x is True for every x.
FloatLt(x, y) == x # NaN /\ y # NaN /\ x < y
FloatGt(x, y) == x # NaN /\ y # NaN /\ x > y
FloatNe(x, y) == x = NaN \/ y = NaN \/ x # y

EmptyDict == [k \in {} |-> None]

(***************************************************************************)
(* NEODatabase.__init__                                                    *)
(***************************************************************************)
\* A dict comprehension keeps, for a key met several times, the last value.
LastIndex(I) == CHOOSE i \in I : \A j \in I : j <= i

\* {neo.name: neo for neo in self._neos}, without the test for None.
NameDictAll(ns) ==
    [k \in {ns[i].name : i \in DOMAIN ns} |->
        LastIndex({i \in DOMAIN ns : ns[i].name = k})]

\* {neo.name: neo for neo in self._neos if neo.name != None}
NameDict(ns) ==
    LET named == {i \in DOMAIN ns : ns[i].name # NoneName}
    IN [k \in {ns[i].name : i \in named} |->
            LastIndex({i \in named : ns[i].name = k})]

\* {neo.designation: neo for neo in self._neos}, keeping the first NEO of a key.
DesDictFirst(ns) ==
    [k \in {ns[i].designation : i \in DOMAIN ns} |->
        CHOOSE i \in DOMAIN ns :
            /\ ns[i].designation = k
            /\ \A j \in DOMAIN ns : ns[j].designation = k => i <= j]

\* {neo.designation: neo for neo in self._neos}
DesDict(ns) ==
    [k \in {ns[i].designation : i \in DOMAIN ns} |->
        LastIndex({i \in DOMAIN ns : ns[i].designation = k})]

\* The linking loop without the append to neo.approaches.
LinkNoAppend(i, ns, as, dd) ==
    [neos |-> ns, approaches |-> [as EXCEPT ![i].neo = dd[as[i]._designation]]]

\* One pass of the body of the linking loop, for the approach at index i whose
\* designation is a key of dd.
LinkOne(i, ns, as, dd) ==
    LET k == dd[as[i]._designation]
    IN [neos |-> [ns EXCEPT ![k].approaches = Append(@, i)],
        approaches |-> [as EXCEPT ![i].neo = k]]

\* The linking loop that passes over an approach of unknown designation.
RECURSIVE LinkSkipping(_, _, _, _)
LinkSkipping(i, ns, as, dd) ==
    IF i > Len(as)
    THEN [neos |-> ns, approaches |-> as, error |-> "none"]
    ELSE IF as[i]._designation \notin DOMAIN dd
    THEN LinkSkipping(i + 1, ns, as, dd)
    ELSE LET s == LinkOne(i, ns, as, dd)
         IN LinkSkipping(i + 1, s.neos, s.approaches, dd)

\* for approach in self._approaches: ...; self._neo_des_dict[key] raises
\* KeyError for a missing key, which ends __init__ with what was linked so far.
RECURSIVE Link(_, _, _, _)
Link(i, ns, as, dd) ==
    IF i > Len(as)
    THEN [neos |-> ns, approaches |-> as, error |-> "none"]
    ELSE IF as[i]._designation \notin DOMAIN dd
    THEN [neos |-> ns, approaches |-> as, error |-> "KeyError"]
    ELSE LET s == LinkOne(i, ns, as, dd)
         IN Link(i + 1, s.neos, s.approaches, dd)

\* NEODatabase(neos, approaches)
Construct ==
    /\ pc = "new"
    /\ LET dd == DesDict(neos)
           l == Link(1, neos, approaches, dd)
       IN /\ _neo_name_dict' = NameDict(neos)
          /\ _neo_des_dict' = dd
          /\ neos' = l.neos
          /\ approaches' = l.approaches
          /\ error' = l.error
          /\ pc' = IF l.error = "none" THEN "ready" ELSE "failed"
    /\ UNCHANGED <<result, streamvars, auxvars>>

(***************************************************************************)
(* Point lookups                                                           *)
(***************************************************************************)
\* dict.get(key, None)
DictGet(d, k) == IF k \in DOMAIN d THEN d[k] ELSE None

Designations == {"d1", "d2"}
UnknownDesignations == {"d3"}
Names == {"N1"}

\* Strings that differ from the designation "d1" in case or in white space only.
NearDesignations == {"D1", " d1"}

NoResult == [op |-> "none", arg |-> "", ret |-> None]

\* designation.strip().lower() on the strings of the model.
Folded(designation) ==
    IF designation \in {"D1", " d1"} THEN "d1" ELSE designation

\* get_neo_by_designation that trims and case-folds what it is asked for.
get_neo_by_designation_folded(designation) ==
    /\ pc = "ready"
    /\ result' = [op |-> "get_neo_by_designation", arg |-> designation,
                  ret |-> DictGet(_neo_des_dict, Folded(designation))]
    /\ UNCHANGED <<dbvars, streamvars, auxvars>>

\* db.get_neo_by_designation(designation)
get_neo_by_designation(designation) ==
    /\ pc = "ready"
    /\ result' = [op |-> "get_neo_by_designation", arg |-> designation,
                  ret |-> DictGet(_neo_des_dict, designation)]
    /\ UNCHANGED <<dbvars, streamvars, auxvars>>

\* db.get_neo_by_name(name)
get_neo_by_name(name) ==
    /\ pc = "ready"
    /\ result' = [op |-> "get_neo_by_name", arg |-> name,
                  ret |-> DictGet(_neo_name_dict, name)]
    /\ UNCHANGED <<dbvars, streamvars, auxvars>>

(***************************************************************************)
(* The linking specification: every pair of unlinked collections within    *)
(* the bounds, constructed and then looked up.                             *)
(***************************************************************************)
\* NearEarthObject as its constructor leaves it: approaches = list().
NewNeo(designation, name, diameter, hazardous) ==
    [designation |-> designation, name |-> name, diameter |-> diameter,
     hazardous |-> hazardous, approaches |-> <<>>]

\* CloseApproach as its constructor leaves it: neo = None.
NewApproach(designation, time, distance, velocity) ==
    [_designation |-> designation, time |-> time, distance |-> distance,
     velocity |-> velocity, neo |-> None]

Time(day, minute) == [day |-> day, minute |-> minute]

LinkNeos ==
    {NewNeo(d, nm, NaN, FALSE) : d \in Designations, nm \in Names \cup {NoneName}}
LinkApproaches ==
    {NewApproach(d, Time(1, 0), 1, 1) : d \in Designations \cup UnknownDesignations}

InitStream ==
    /\ filters = [kind |-> "unset"]
    /\ qstate = "none"
    /\ qpos = 0
    /\ qyielded = <<>>
    /\ n = NoneV
    /\ lstate = "none"
    /\ lcnt = 0
    /\ out = <<>>
    /\ cstate = "open"

InitDb(N, A) ==
    /\ neos \in N
    /\ approaches \in A
    /\ _neo_name_dict = EmptyDict
    /\ _neo_des_dict = EmptyDict
    /\ pc = "new"
    /\ error = "none"
    /\ result = NoResult
    /\ neo_data = <<>>
    /\ cad_data = <<>>
    /\ streams = <<>>

Init ==
    /\ InitDb(SeqsUpTo(MaxNeos, LinkNeos), SeqsUpTo(MaxApproaches, LinkApproaches))
    /\ InitStream
    /\ args = [kind |-> "default"]

Next ==
    \/ Construct
    \/ \E d \in Designations \cup UnknownDesignations \cup NearDesignations :
          get_neo_by_designation(d)
    \/ \E nm \in Names \cup {NoneName, ""} : get_neo_by_name(nm)

Spec == Init /\ [][Next]_vars

(***************************************************************************)
(* Claims about construction and linking.                                  *)
(***************************************************************************)
Elems(s) == {s[i] : i \in DOMAIN s}

\* How many approaches of the supplied collection carry the designation d.
Carrying(d) == {i \in DOMAIN approaches : approaches[i]._designation = d}

\* The NEOs of the supplied collection whose designation is d.
Designated(d) == {k \in DOMAIN neos : neos[k].designation = d}

\* C1: once construction has succeeded, every approach a has a neo, that
\* neo's designation is a._designation, and a is in that neo's approaches.
C1_Linked ==
    pc = "ready" =>
        \A i \in DOMAIN approaches :
            /\ approaches[i].neo # None
            /\ neos[approaches[i].neo].designation = approaches[i]._designation
            /\ i \in Elems(neos[approaches[i].neo].approaches)

C1_Witness ==
    /\ pc = "ready"
    /\ \E i, j \in DOMAIN approaches :
          /\ approaches[i].neo # None
          /\ approaches[j].neo # None
          /\ approaches[i].neo # approaches[j].neo

\* C2 as stated: once construction has succeeded, every NEO of the supplied
\* collection has as many approaches as the supplied approach collection has
\* approaches of its designation.
C2_EveryNeoCounts ==
    pc = "ready" =>
        \A k \in DOMAIN neos :
            Len(neos[k].approaches) = Cardinality(Carrying(neos[k].designation))

\* C2 amended: once construction has succeeded, every NEO that is the last of
\* its designation in iteration order (every NEO, when designations are
\* unique) has exactly the approaches of its designation, in the order of the
\* approach collection, and a NEO followed by another of the same designation
\* has none.
C2_RetainedNeoCounts ==
    pc = "ready" =>
        \A k \in DOMAIN neos :
            IF k = LastIndex(Designated(neos[k].designation))
            THEN /\ Len(neos[k].approaches) = Cardinality(Carrying(neos[k].designation))
                 /\ Elems(neos[k].approaches) = Carrying(neos[k].designation)
                 /\ \A x, y \in DOMAIN neos[k].approaches :
                        x < y => neos[k].approaches[x] < neos[k].approaches[y]
            ELSE neos[k].approaches = <<>>

C2_Witness ==
    /\ pc = "ready"
    /\ \E k \in DOMAIN neos : Len(neos[k].approaches) >= 2
    /\ \E k \in DOMAIN neos :
          /\ k # LastIndex(Designated(neos[k].designation))
          /\ Carrying(neos[k].designation) # {}

\* An approach of the supplied collection whose designation no NEO has.
Dangling == {i \in DOMAIN approaches : Designated(approaches[i]._designation) = {}}

\* C9: when some approach's designation matches no NEO, construction fails
\* with the missing-key error, and nothing is ever looked up or queried.
C9_DanglingFails ==
    (pc # "new" /\ Dangling # {}) =>
        /\ pc = "failed"
        /\ error = "KeyError"
        /\ result = NoResult
        /\ qstate = "none"

C9_Witness ==
    /\ pc = "failed"
    /\ \E i, j \in DOMAIN approaches :
          i < j /\ approaches[i].neo # None /\ j \in Dangling

\* C10: when several NEOs share a designation d, construction does not fail
\* because of it and the last of them is retained: the index maps d to it,
\* get_neo_by_designation(d) returns it, and every linked approach of
\* designation d refers to it.
C10_LastRetained ==
    pc # "new" =>
        \A d \in Designations :
            Cardinality(Designated(d)) >= 2 =>
                /\ error # "KeyError" \/ Dangling # {}
                /\ _neo_des_dict[d] = LastIndex(Designated(d))
                /\ (result.op = "get_neo_by_designation" /\ result.arg = d)
                       => result.ret = LastIndex(Designated(d))
                /\ \A i \in Carrying(d) :
                      /\ approaches[i].neo \in {None, LastIndex(Designated(d))}
                      /\ pc = "ready" => approaches[i].neo = LastIndex(Designated(d))

C10_Witness ==
    /\ pc = "ready"
    /\ result.op = "get_neo_by_designation"
    /\ Cardinality(Designated(result.arg)) >= 2
    /\ Carrying(result.arg) # {}
    /\ result.ret = LastIndex(Designated(result.arg))

\* C11: get_neo_by_designation(d) returns, without raising, a NEO whose
\* designation is d character for character when the NEO collection has
\* one, and None otherwise.
C11_ExactDesignation ==
    result.op = "get_neo_by_designation" =>
        /\ pc = "ready"
        /\ IF Designated(result.arg) # {}
           THEN result.ret \in Designated(result.arg)
           ELSE result.ret = None

C11_Witness ==
    /\ result.op = "get_neo_by_designation"
    /\ result.arg \in NearDesignations
    /\ Designated("d1") # {}
    /\ result.ret = None

(***************************************************************************)
(* filters.py: AttributeType, DateAttr, HazardAttr, create_filters         *)
(***************************************************************************)
\* float(x) of a float or of a str; a str that spells a date is no number.
float(x) ==
    CASE x.t = "float" -> x
      [] x.t = "numstr" -> Float(x.v)
      [] OTHER -> ValueError

\* AttributeType.__init__ on one bound: None and datetime.date are kept as
\* they are, every other value goes through float().
Coerce(x) == IF x # NoneV /\ x.t # "date" THEN float(x) ELSE x

\* AttributeType(attribute_name, attribute_max, attribute_min)
AttributeType(attribute_max, attribute_min) ==
    [attribute_max |-> Coerce(attribute_max), attribute_min |-> Coerce(attribute_min)]

\* datetime.datetime.strptime(s, "%Y-%m-%d"): a datetime, at midnight.
strptime(s) == DateTime(s.v)

\* DateAttr.__init__, the on_date part: a value that is no datetime.date is
\* parsed with strptime and the datetime is stored.
OnDate(on_date) ==
    IF on_date # NoneV
    THEN IF on_date.t # "date" THEN strptime(on_date) ELSE on_date
    ELSE NoneV

\* DateAttr(attribute_name, attribute_max, attribute_min, on_date)
DateAttr(attribute_max, attribute_min, on_date) ==
    [attribute_max |-> Coerce(attribute_max), attribute_min |-> Coerce(attribute_min),
     on_date |-> OnDate(on_date)]

\* HazardAttr(attribute_name, hazardous)
HazardAttr(hazardous) == [hazardous |-> hazardous]

\* create_filters(date=..., ..., hazardous=...): the Filters object, or the
\* ValueError of a bound that float() refuses.
create_filters(a) ==
    LET f == [kind |-> "Filters",
              distance_filter |-> AttributeType(a.distance_max, a.distance_min),
              diameter_filter |-> AttributeType(a.diameter_max, a.diameter_min),
              velocity_filter |-> AttributeType(a.velocity_max, a.velocity_min),
              date_filter |-> DateAttr(a.end_date, a.start_date, a.date),
              hazard_filter |-> HazardAttr(a.hazardous)]
        bounds == {f.distance_filter.attribute_max, f.distance_filter.attribute_min,
                   f.diameter_filter.attribute_max, f.diameter_filter.attribute_min,
                   f.velocity_filter.attribute_max, f.velocity_filter.attribute_min,
                   f.date_filter.attribute_max, f.date_filter.attribute_min}
    IN IF ValueError \in bounds THEN [kind |-> "ValueError"] ELSE f

\* The options of create_filters, all absent.
NoOptions ==
    [kind |-> "options", date |-> NoneV, start_date |-> NoneV, end_date |-> NoneV,
     distance_min |-> NoneV, distance_max |-> NoneV,
     velocity_min |-> NoneV, velocity_max |-> NoneV,
     diameter_min |-> NoneV, diameter_max |-> NoneV, hazardous |-> NoneV]

(***************************************************************************)
(* NEODatabase.query                                                       *)
(***************************************************************************)
\* approach.time.date()
date(time) == Date(time.day)

\* x != y of two values: values of different types are unequal, and a
\* datetime.date never equals a datetime.datetime.
PyNe(x, y) == x.t # y.t \/ x.v # y.v

\* The body of the loop of query with a hazard test that takes an absent
\* hazardous option for False.
ApproachValidHazardTotal(approach, neo, f) ==
    /\ ~ (/\ f.distance_filter.attribute_min # NoneV
          /\ FloatLt(approach.distance, f.distance_filter.attribute_min.v))
    /\ ~ (/\ f.distance_filter.attribute_max # NoneV
          /\ FloatGt(approach.distance, f.distance_filter.attribute_max.v))
    /\ ~ (/\ f.diameter_filter.attribute_min # NoneV
          /\ \/ FloatLt(neo.diameter, f.diameter_filter.attribute_min.v)
             \/ FloatNe(neo.diameter, neo.diameter))
    /\ ~ (/\ f.diameter_filter.attribute_max # NoneV
          /\ \/ FloatGt(neo.diameter, f.diameter_filter.attribute_max.v)
             \/ FloatNe(neo.diameter, neo.diameter))
    /\ ~ (/\ f.velocity_filter.attribute_min # NoneV
          /\ FloatLt(approach.velocity, f.velocity_filter.attribute_min.v))
    /\ ~ (/\ f.velocity_filter.attribute_max # NoneV
          /\ FloatGt(approach.velocity, f.velocity_filter.attribute_max.v))
    /\ ~ (neo.hazardous # (f.hazard_filter.hazardous.v = 1))
    /\ ~ (/\ f.date_filter.on_date # NoneV
          /\ PyNe(date(approach.time), f.date_filter.on_date))
    /\ ~ (/\ f.date_filter.attribute_min # NoneV
          /\ date(approach.time).v < f.date_filter.attribute_min.v)
    /\ ~ (/\ f.date_filter.attribute_max # NoneV
          /\ date(approach.time).v > f.date_filter.attribute_max.v)

\* The body of the loop of query: approach_valid starts True and each `if`
\* whose condition holds sets it to False; the value at the end of the body.
ApproachValid(approach, neo, f) ==
    /\ ~ (/\ f.distance_filter.attribute_min # NoneV
          /\ FloatLt(approach.distance, f.distance_filter.attribute_min.v))
    /\ ~ (/\ f.distance_filter.attribute_max # NoneV
          /\ FloatGt(approach.distance, f.distance_filter.attribute_max.v))
    /\ ~ (/\ f.diameter_filter.attribute_min # NoneV
          /\ \/ FloatLt(neo.diameter, f.diameter_filter.attribute_min.v)
             \/ FloatNe(neo.diameter, neo.diameter))
    /\ ~ (/\ f.diameter_filter.attribute_max # NoneV
          /\ \/ FloatGt(neo.diameter, f.diameter_filter.attribute_max.v)
             \/ FloatNe(neo.diameter, neo.diameter))
    /\ ~ (/\ f.velocity_filter.attribute_min # NoneV
          /\ FloatLt(approach.velocity, f.velocity_filter.attribute_min.v))
    /\ ~ (/\ f.velocity_filter.attribute_max # NoneV
          /\ FloatGt(approach.velocity, f.velocity_filter.attribute_max.v))
    /\ ~ (/\ f.hazard_filter.hazardous # NoneV
          /\ PyNe(Bool(neo.hazardous), f.hazard_filter.hazardous))
    /\ ~ (/\ f.date_filter.on_date # NoneV
          /\ PyNe(date(approach.time), f.date_filter.on_date))
    /\ ~ (/\ f.date_filter.attribute_min # NoneV
          /\ date(approach.time).v < f.date_filter.attribute_min.v)
    /\ ~ (/\ f.date_filter.attribute_max # NoneV
          /\ date(approach.time).v > f.date_filter.attribute_max.v)

\* One next() of the generator that query returns, resumed after it has taken
\* p approaches from self._approaches: it runs the loop up to the next yield,
\* to the end of the collection, or to the AttributeError that reading
\* filters.distance_filter raises when filters is the default tuple ().
RECURSIVE QueryResumeWith(_, _)
QueryResumeWith(f, p) ==
    IF p >= Len(approaches)
    THEN [pos |-> p, yield |-> None, state |-> "exhausted"]
    ELSE IF f.kind = "tuple"
    THEN [pos |-> p + 1, yield |-> None, state |-> "raised"]
    ELSE IF ApproachValid(approaches[p + 1], neos[approaches[p + 1].neo], f)
    THEN [pos |-> p + 1, yield |-> p + 1, state |-> "suspended"]
    ELSE QueryResumeWith(f, p + 1)

\* The same for the generator of the query whose argument is filters.
QueryResume(p) == QueryResumeWith(filters, p)

\* filters = create_filters(**options); results = db.query(filters), or
\* results = db.query() when no filters are given.  Calling a generator
\* function runs none of its body.
query ==
    /\ pc = "ready"
    /\ qstate = "none"
    /\ filters.kind = "unset"
    /\ filters' = IF args.kind = "default" THEN [kind |-> "tuple"] ELSE create_filters(args)
    /\ qstate' = IF filters'.kind = "ValueError" THEN "none" ELSE "suspended"
    /\ UNCHANGED <<dbvars, result, args, qpos, qyielded, n, lstate, lcnt, out, cstate, auxvars>>

(***************************************************************************)
(* filters.py: limit, and the consumer of the stream it returns            *)
(***************************************************************************)
\* limit that hands every n that is not None to islice.
limitZeroSliced(k) == IF k # NoneV THEN "islice" ELSE "iterator"

\* limit(iterator, n): an itertools.islice(iterator, n) when n is neither
\* None nor 0, the iterator itself otherwise.
limit(k) == IF k # NoneV /\ k # IntV(0) THEN "islice" ELSE "iterator"

\* An islice that asks its iterator before it looks at its count.
isliceAsksEager(cnt, stop) == cnt <= stop

\* islice.__next__: the iterator is asked for a value only while fewer than
\* stop values have been taken.
isliceAsks(cnt, stop) == cnt < stop

\* results = limit(results, n)
Limit ==
    /\ qstate = "suspended"
    /\ lstate = "none"
    /\ lstate' = limit(n)
    /\ UNCHANGED <<dbvars, result, args, filters, qstate, qpos, qyielded, n, lcnt, out, cstate, auxvars>>

\* next(results) by the consumer.
ConsumerNext ==
    /\ lstate # "none"
    /\ IF lstate = "islice" /\ ~ isliceAsks(lcnt, n.v)
       THEN /\ cstate' = "stopped"
            /\ UNCHANGED <<qstate, qpos, qyielded, lcnt, out>>
       ELSE IF qstate # "suspended"
       THEN /\ cstate' = "stopped"
            /\ UNCHANGED <<qstate, qpos, qyielded, lcnt, out>>
       ELSE LET r == QueryResume(qpos)
            IN /\ qstate' = r.state
               /\ qpos' = r.pos
               /\ qyielded' = IF r.yield # None THEN Append(qyielded, r.yield) ELSE qyielded
               /\ lcnt' = IF r.yield # None /\ lstate = "islice" THEN lcnt + 1 ELSE lcnt
               /\ out' = IF r.yield # None THEN Append(out, r.yield) ELSE out
               /\ cstate' = CASE r.state = "suspended" -> "open"
                              [] r.state = "exhausted" -> "stopped"
                              [] OTHER -> "raised"
    /\ UNCHANGED <<dbvars, result, args, filters, n, lstate, auxvars>>

(***************************************************************************)
(* The query specification: a database, the options of one query and the n *)
(* of its limit; the database is constructed, queried, limited and the     *)
(* stream consumed one next() at a time.                                   *)
(***************************************************************************)
NumericOptions == {"distance_min", "distance_max", "velocity_min", "velocity_max",
                   "diameter_min", "diameter_max"}
DateOptions == {"date", "start_date", "end_date"}
OptionNames == NumericOptions \cup DateOptions \cup {"hazardous"}

\* What an option is given as: a number or the str of one, a date or the str
\* of one, a bool.
OptionValues(name) ==
    IF name \in NumericOptions THEN {Float(2), NumStr(2)}
    ELSE IF name \in DateOptions THEN {Date(2), DateStr(2)}
    ELSE {Bool(TRUE), Bool(FALSE)}

OptionsOf(S, g) ==
    [date |-> IF "date" \in S THEN g["date"] ELSE NoneV,
     start_date |-> IF "start_date" \in S THEN g["start_date"] ELSE NoneV,
     end_date |-> IF "end_date" \in S THEN g["end_date"] ELSE NoneV,
     distance_min |-> IF "distance_min" \in S THEN g["distance_min"] ELSE NoneV,
     distance_max |-> IF "distance_max" \in S THEN g["distance_max"] ELSE NoneV,
     velocity_min |-> IF "velocity_min" \in S THEN g["velocity_min"] ELSE NoneV,
     velocity_max |-> IF "velocity_max" \in S THEN g["velocity_max"] ELSE NoneV,
     diameter_min |-> IF "diameter_min" \in S THEN g["diameter_min"] ELSE NoneV,
     diameter_max |-> IF "diameter_max" \in S THEN g["diameter_max"] ELSE NoneV,
     hazardous |-> IF "hazardous" \in S THEN g["hazardous"] ELSE NoneV,
     kind |-> "options"]

\* Every choice of at most MaxActive options.
Options ==
    UNION {{OptionsOf(S, g) :
               g \in {h \in [S -> UNION {OptionValues(o) : o \in S}] :
                         \A o \in S : h[o] \in OptionValues(o)}} :
           S \in {T \in SUBSET OptionNames : Cardinality(T) <= MaxActive}}

Times == {Time(1, 0), Time(2, 0), Time(2, 1), Time(3, 0)}

QueryNeos ==
    {NewNeo("d1", NoneName, dm, hz) : dm \in {NaN, 1, 2, 3}, hz \in BOOLEAN}
QueryApproaches ==
    {NewApproach("d1", t, ds, vl) : t \in Times, ds \in {1, 2, 3}, vl \in {1, 2, 3}}

\* One approach of every kind against every choice of options.
InitOneApproach ==
    /\ InitDb([1..1 -> QueryNeos], [1..1 -> QueryApproaches])
    /\ InitStream
    /\ args \in Options \cup {[kind |-> "default"]}

StreamApproaches == {NewApproach(d, Time(1, 0), ds, 1) : d \in Designations, ds \in {1, 3}}
StreamOptions ==
    {[kind |-> "default"], NoOptions, [NoOptions EXCEPT !.distance_min = Float(2)]}

\* Several approaches, queried with few options, under every n of limit.
InitSeveralApproaches ==
    /\ neos = <<NewNeo("d1", NoneName, NaN, FALSE), NewNeo("d2", NoneName, NaN, FALSE)>>
    /\ approaches \in SeqsUpTo(MaxApproaches, StreamApproaches)
    /\ _neo_name_dict = EmptyDict
    /\ _neo_des_dict = EmptyDict
    /\ pc = "new"
    /\ error = "none"
    /\ result = NoResult
    /\ neo_data = <<>>
    /\ cad_data = <<>>
    /\ streams = <<>>
    /\ args \in StreamOptions
    /\ filters = [kind |-> "unset"]
    /\ qstate = "none"
    /\ qpos = 0
    /\ qyielded = <<>>
    /\ n \in {NoneV} \cup {IntV(k) : k \in 0..MaxLimit}
    /\ lstate = "none"
    /\ lcnt = 0
    /\ out = <<>>
    /\ cstate = "open"

InitQuery == InitOneApproach \/ InitSeveralApproaches

NextQuery ==
    \/ Construct
    \/ query
    \/ Limit
    \/ ConsumerNext

SpecQuery == InitQuery /\ [][NextQuery]_vars

(***************************************************************************)
(* Claims about query and limit.                                           *)
(***************************************************************************)
\* The NEO an approach is linked to.
NeoOf(k) == neos[approaches[k].neo]

\* The calendar date a date bound stands for, whether it is held as a date
\* or as a datetime.
CalendarDay(b) == b.v

\* The predicates of the contract: a bound that is present must be met,
\* bounds are inclusive, a NaN diameter meets no diameter bound.
Passes(approach, neo, f) ==
    /\ f.distance_filter.attribute_min # NoneV
          => approach.distance >= f.distance_filter.attribute_min.v
    /\ f.distance_filter.attribute_max # NoneV
          => approach.distance <= f.distance_filter.attribute_max.v
    /\ f.velocity_filter.attribute_min # NoneV
          => approach.velocity >= f.velocity_filter.attribute_min.v
    /\ f.velocity_filter.attribute_max # NoneV
          => approach.velocity <= f.velocity_filter.attribute_max.v
    /\ f.diameter_filter.attribute_min # NoneV
          => neo.diameter # NaN /\ neo.diameter >= f.diameter_filter.attribute_min.v
    /\ f.diameter_filter.attribute_max # NoneV
          => neo.diameter # NaN /\ neo.diameter <= f.diameter_filter.attribute_max.v
    /\ f.date_filter.on_date # NoneV
          => approach.time.day = CalendarDay(f.date_filter.on_date)
    /\ f.date_filter.attribute_min # NoneV
          => approach.time.day >= CalendarDay(f.date_filter.attribute_min)
    /\ f.date_filter.attribute_max # NoneV
          => approach.time.day <= CalendarDay(f.date_filter.attribute_max)
    /\ f.hazard_filter.hazardous # NoneV
          => neo.hazardous = (f.hazard_filter.hazardous.v = 1)

\* C3: query yields an approach it has evaluated if and only if every active
\* predicate passes.
C3_YieldIffPass ==
    filters.kind = "Filters" =>
        \A k \in 1..qpos :
            k \in Elems(qyielded) <=> Passes(approaches[k], NeoOf(k), filters)

\* C3 holds of every bundle whose on_date was given as a date object rather
\* than as a string.
C3_YieldIffPassDateObjects ==
    (filters.kind = "Filters" /\ filters.date_filter.on_date.t # "datetime") =>
        \A k \in 1..qpos :
            k \in Elems(qyielded) <=> Passes(approaches[k], NeoOf(k), filters)

DiameterBounded(f) ==
    f.diameter_filter.attribute_min # NoneV \/ f.diameter_filter.attribute_max # NoneV

\* C4: under a diameter bound no yielded approach has a NEO of NaN diameter,
\* and without one an evaluated approach whose NEO has NaN diameter is
\* yielded exactly when the active predicates pass.
C4_NaNDiameter ==
    filters.kind = "Filters" =>
        \A k \in 1..qpos :
            NeoOf(k).diameter = NaN =>
                IF DiameterBounded(filters)
                THEN k \notin Elems(qyielded)
                ELSE k \in Elems(qyielded) <=> Passes(approaches[k], NeoOf(k), filters)

\* The first half of C4 alone: under a diameter bound no yielded approach has
\* a NEO of NaN diameter.
C4_NaNExcluded ==
    (filters.kind = "Filters" /\ DiameterBounded(filters)) =>
        \A k \in Elems(qyielded) : NeoOf(k).diameter # NaN

C6_DefaultQueryYieldsAll ==
    (filters.kind = "tuple" /\ Len(approaches) >= 1) =>
        /\ qstate # "raised"
        /\ cstate # "raised"
        /\ (qstate = "exhausted" /\ lstate = "iterator")
              => out = [i \in 1..Len(approaches) |-> i]

\* The stream that limit is given: the approaches that the query yields when
\* it is run to its end, in order.
RECURSIVE MatchingFrom(_)
MatchingFrom(k) ==
    IF k > Len(approaches) THEN <<>>
    ELSE IF ApproachValid(approaches[k], NeoOf(k), filters)
    THEN <<k>> \o MatchingFrom(k + 1)
    ELSE MatchingFrom(k + 1)

Min(a, b) == IF a <= b THEN a ELSE b

\* How many values limit(s, k) is to yield.
LimitedLen(s, k) == IF k.t = "int" /\ k.v > 0 THEN Min(k.v, Len(s)) ELSE Len(s)

\* C7: what the consumer of limit(s, n) has received is always a prefix of s,
\* and when the limited stream has ended it is exactly the first min(n, |s|)
\* elements of s for a positive n and all of s for n absent or 0.
C7_LimitPrefix ==
    (filters.kind = "Filters" /\ lstate # "none") =>
        LET s == MatchingFrom(1)
        IN /\ Len(out) <= LimitedLen(s, n)
           /\ out = SubSeq(s, 1, Len(out))
           /\ cstate = "stopped" => Len(out) = LimitedLen(s, n)

C7_Witness ==
    /\ filters.kind = "Filters"
    /\ cstate = "stopped"
    /\ n = IntV(2)
    /\ Len(MatchingFrom(1)) = 3
    /\ out = SubSeq(MatchingFrom(1), 1, 2)

\* C8: while limit(s, n) with a positive n is consumed, and after it has
\* ended, the query has yielded at most n approaches and has evaluated no
\* approach past the n-th one it yielded.
C8_NoOverPull ==
    lstate = "islice" =>
        /\ Len(qyielded) <= n.v
        /\ lcnt = Len(qyielded)
        /\ Len(qyielded) = n.v => qpos = qyielded[n.v]

C8_Witness ==
    /\ lstate = "islice"
    /\ cstate = "stopped"
    /\ Len(qyielded) = n.v
    /\ qpos < Len(approaches)
    /\ qyielded # [i \in 1..qpos |-> i]

(***************************************************************************)
(* models.py: NearEarthObject.__init__, and the specification of NEOs made *)
(* from keyword arguments, collected, indexed and looked up by name.       *)
(***************************************************************************)
\* A keyword argument: left out, None, or a str.
Omitted == [t |-> "omitted", s |-> ""]
NoneArg == [t |-> "None", s |-> ""]
Str(x) == [t |-> "str", s |-> x]

\* info.get('name', ''): the default for a keyword left out.
GetName(x) == IF x = Omitted THEN Str("") ELSE x

\* str(x): the str itself, and 'None' for None.
str(x) == IF x.t = "None" THEN "None" ELSE x.s

\* self.name: None when info.get('name', '') == '', str(info['name']) otherwise.
NeoName(x) == IF GetName(x) = Str("") THEN NoneName ELSE str(x)

\* self.diameter: NaN for '', float() of the value otherwise.
NeoDiameter(x) == IF x = Str("") THEN NaN ELSE float(x).v

\* self.hazardous: False for a missing or None value, else whether it is 'Y'.
NeoHazardous(x) ==
    IF x = Omitted \/ x = NoneArg THEN FALSE ELSE str(x) = "Y"

\* NearEarthObject(**info)
NearEarthObjectOf(info) ==
    NewNeo(info.designation, NeoName(info.name), NeoDiameter(info.diameter),
           NeoHazardous(info.hazardous))

NeoInfos ==
    {[designation |-> d, name |-> nm, diameter |-> dh[1], hazardous |-> dh[2]] :
        d \in Designations,
        nm \in {Omitted, NoneArg, Str("")} \cup {Str(x) : x \in Names},
        dh \in {<<Str(""), Str("Y")>>, <<NumStr(2), Str("")>>}}

\* neo = NearEarthObject(**info), added to the collection that NEODatabase
\* will be given.
NearEarthObject(info) ==
    /\ pc = "new"
    /\ Len(neos) < MaxNeos
    /\ neos' = Append(neos, NearEarthObjectOf(info))
    /\ neo_data' = Append(neo_data, info)
    /\ UNCHANGED <<approaches, _neo_name_dict, _neo_des_dict, pc, error, result,
                   streamvars, cad_data, streams>>

\* What get_neo_by_name is asked for: None, the empty string, a name, and the
\* str of None.
LookupNames == {NoneName, "", "None"} \cup Names

InitNeo ==
    /\ InitDb({<<>>}, {<<>>})
    /\ InitStream
    /\ args = [kind |-> "default"]

NextNeo ==
    \/ \E info \in NeoInfos : NearEarthObject(info)
    \/ Construct
    \/ \E nm \in LookupNames : get_neo_by_name(nm)

SpecNeo == InitNeo /\ [][NextNeo]_vars

\* The NEOs of the collection whose name is nm.
Named(nm) == {k \in DOMAIN neos : neos[k].name = nm}

\* C12: get_neo_by_name returns, without raising, None or a NEO whose name is
\* present and is the argument exactly, the last such NEO in iteration
\* order; asked for None or for the empty string it returns None.
C12_ExactName ==
    result.op = "get_neo_by_name" =>
        /\ pc = "ready"
        /\ result.ret # None =>
              /\ neos[result.ret].name # NoneName
              /\ neos[result.ret].name = result.arg
              /\ result.ret = LastIndex(Named(result.arg))
        /\ result.arg \in {NoneName, ""} => result.ret = None

C12_Witness ==
    /\ result.op = "get_neo_by_name"
    /\ Cardinality(Named(result.arg)) >= 2
    /\ result.ret = LastIndex(Named(result.arg))
    /\ Named(NoneName) # {}

\* C16: a NEO made with the name '', None or left out has the name None, a
\* NEO made with any other name has a non-empty str for its name.
C16_NameNormalised ==
    \A k \in DOMAIN neo_data :
        IF neo_data[k].name \in {Omitted, NoneArg, Str("")}
        THEN neos[k].name = NoneName
        ELSE neos[k].name \notin {NoneName, ""}

\* The conclusion of C16 alone: every NEO made has a name that is None or a
\* non-empty str.
C16_AbsentOrNonEmpty ==
    \A k \in DOMAIN neo_data : neos[k].name # ""

\* The options with every date given as a str replaced by the equal date.
AsDate(x) == IF x.t = "datestr" THEN Date(x.v) ELSE x
AsDateObjects(a) ==
    [a EXCEPT !.date = AsDate(@), !.start_date = AsDate(@), !.end_date = AsDate(@)]

HasDateStr(a) ==
    \/ a.date.t = "datestr"
    \/ a.start_date.t = "datestr"
    \/ a.end_date.t = "datestr"

\* C13: create_filters given a date, start_date or end_date as a
\* 'YYYY-MM-DD' str succeeds, and the query with its bundle yields what the
\* query with the bundle of the equal date objects yields.
C13_DateStrings ==
    (filters.kind # "unset" /\ args.kind = "options" /\ HasDateStr(args)) =>
        /\ filters.kind = "Filters"
        /\ \A k \in 1..qpos :
              k \in Elems(qyielded)
                 <=> ApproachValid(approaches[k], NeoOf(k),
                                   create_filters(AsDateObjects(args)))

(***************************************************************************)
(* extract.py: load_approaches, and the specification of a close approach  *)
(* file that is loaded, linked, queried and limited.                       *)
(***************************************************************************)
\* helpers.cd_to_datetime: the datetime that 'YYYY-MMM-DD HH:MM' spells.
cd_to_datetime(x) == Time(x.day, x.minute)

\* CloseApproach(designation=line[0], time=line[3], distance=line[4],
\*               velocity=line[7])
CloseApproachOf(line) ==
    NewApproach(line.designation, cd_to_datetime(line.time),
                float(line.distance).v, float(line.velocity).v)

CdStr(day, minute) == [t |-> "cdstr", day |-> day, minute |-> minute]

CadLines ==
    {[designation |-> "d1", time |-> t, distance |-> NumStr(1), velocity |-> NumStr(1)] :
        t \in {CdStr(1, 0), CdStr(1, 1), CdStr(2, 0)}}

\* The orders in which a set of the objects of s can be iterated: the
\* objects hash by identity, so any order.
Orders(s) ==
    {[i \in DOMAIN s |-> s[p[i]]] :
        p \in {q \in [DOMAIN s -> DOMAIN s] : \A i, j \in DOMAIN s : q[i] = q[j] => i = j}}

\* approaches = load_approaches(path): every record becomes a CloseApproach
\* that is added to a set, and the set is what NEODatabase iterates.
load_approaches ==
    /\ pc = "file"
    /\ approaches' \in Orders([i \in DOMAIN cad_data |-> CloseApproachOf(cad_data[i])])
    /\ pc' = "new"
    /\ UNCHANGED <<neos, _neo_name_dict, _neo_des_dict, error, result, streamvars, auxvars>>

LoadOptions == {NoOptions, [NoOptions EXCEPT !.date = Date(1)]}

InitLoad ==
    /\ neos = <<NewNeo("d1", NoneName, NaN, FALSE)>>
    /\ approaches = <<>>
    /\ _neo_name_dict = EmptyDict
    /\ _neo_des_dict = EmptyDict
    /\ pc = "file"
    /\ error = "none"
    /\ result = NoResult
    /\ args \in LoadOptions
    /\ filters = [kind |-> "unset"]
    /\ qstate = "none"
    /\ qpos = 0
    /\ qyielded = <<>>
    /\ n \in {NoneV, IntV(1)}
    /\ lstate = "none"
    /\ lcnt = 0
    /\ out = <<>>
    /\ cstate = "open"
    /\ neo_data = <<>>
    /\ cad_data \in SeqsUpTo(MaxApproaches, CadLines)
    /\ streams = <<>>

NextLoad ==
    \/ load_approaches
    \/ Construct
    \/ query
    \/ Limit
    \/ ConsumerNext

SpecLoad == InitLoad /\ [][NextLoad]_vars

\* The approaches of the file that pass the filters, in file order.
RECURSIVE FileMatchingFrom(_)
FileMatchingFrom(i) ==
    IF i > Len(cad_data) THEN <<>>
    ELSE LET a == CloseApproachOf(cad_data[i])
         IN IF ApproachValid(a, neos[_neo_des_dict[a._designation]], filters)
            THEN <<a>> \o FileMatchingFrom(i + 1)
            ELSE FileMatchingFrom(i + 1)

\* An approach of the database without its link.
Unlinked(k) == [approaches[k] EXCEPT !.neo = None]

\* C14: the query over the approaches that load_approaches returned yields
\* the matching approaches in the order of the records of the file, and
\* limit(..., 1) of it gives the first matching record of the file.
C14_FileOrder ==
    (filters.kind = "Filters" /\ Len(cad_data) = Len(approaches)) =>
        /\ \A i \in DOMAIN qyielded :
              /\ i <= Len(FileMatchingFrom(1))
              /\ Unlinked(qyielded[i]) = FileMatchingFrom(1)[i]
        /\ (lstate = "islice" /\ n = IntV(1) /\ Len(out) = 1)
              => Unlinked(out[1]) = FileMatchingFrom(1)[1]

(***************************************************************************)
(* Readers side by side: on one database, lookups and the next() calls of  *)
(* several query generators in any interleaving.                           *)
(***************************************************************************)
\* One iterator over self._approaches that every generator advances.
CursorShared(s, i) ==
    LET P == {s[j].pos : j \in DOMAIN s}
    IN CHOOSE p \in P : \A q \in P : q <= p

\* for approach in self._approaches: each generator iterates the collection
\* with an iterator of its own, which stands where that generator left it.
Cursor(s, i) == s[i].pos

\* results = db.query(filters) or db.query(): one more generator, not started.
StreamQuery(a) ==
    /\ pc = "ready"
    /\ Len(streams) < MaxStreams
    /\ LET f == IF a.kind = "default" THEN [kind |-> "tuple"] ELSE create_filters(a)
       IN /\ f.kind # "ValueError"
          /\ streams' = Append(streams, [filters |-> f, state |-> "suspended",
                                         pos |-> 0, yielded |-> <<>>])
    /\ UNCHANGED <<dbvars, result, streamvars, neo_data, cad_data>>

\* next() on the i-th generator.
StreamNext(i) ==
    /\ pc = "ready"
    /\ i \in DOMAIN streams
    /\ streams[i].state = "suspended"
    /\ LET r == QueryResumeWith(streams[i].filters, Cursor(streams, i))
       IN streams' = [streams EXCEPT
              ![i].state = r.state,
              ![i].pos = r.pos,
              ![i].yielded = IF r.yield # None THEN Append(@, r.yield) ELSE @]
    /\ UNCHANGED <<dbvars, result, streamvars, neo_data, cad_data>>

SharedApproaches == {NewApproach("d1", Time(1, 0), ds, 1) : ds \in {1, 3}}

InitShared ==
    /\ InitDb({<<NewNeo("d1", "N1", NaN, FALSE)>>}, SeqsUpTo(MaxApproaches, SharedApproaches))
    /\ InitStream
    /\ args = [kind |-> "default"]

NextShared ==
    \/ Construct
    \/ \E a \in StreamOptions : StreamQuery(a)
    \/ \E i \in 1..MaxStreams : StreamNext(i)
    \/ get_neo_by_designation("d1")
    \/ \E nm \in Names : get_neo_by_name(nm)

SpecShared == InitShared /\ [][NextShared]_vars

\* What the query with the bundle f yields when it alone runs to its end.
RECURSIVE MatchingOf(_, _)
MatchingOf(f, k) ==
    IF f.kind # "Filters" \/ k > Len(approaches) THEN <<>>
    ELSE IF ApproachValid(approaches[k], NeoOf(k), f)
    THEN <<k>> \o MatchingOf(f, k + 1)
    ELSE MatchingOf(f, k + 1)

\* Every generator is where it would be had it run alone: it has yielded a
\* prefix of what its query yields, it stands at the last approach it
\* yielded, and it has ended only after the whole collection.
StreamsAlone ==
    \A i \in DOMAIN streams :
        LET s == streams[i]
            m == MatchingOf(s.filters, 1)
        IN /\ Len(s.yielded) <= Len(m)
           /\ s.yielded = SubSeq(m, 1, Len(s.yielded))
           /\ s.state = "suspended" =>
                 s.pos = IF s.yielded = <<>> THEN 0 ELSE s.yielded[Len(s.yielded)]
           /\ s.state = "exhausted" => s.yielded = m /\ s.pos = Len(approaches)
           /\ s.state = "raised" => s.filters.kind = "tuple"

\* C15: once the database is constructed, no lookup and no step of any query
\* generator changes the collections, the indexes or the links, and every
\* generator yields what it yields when run alone.
C15_ReadOnly ==
    [][pc = "ready" => (dbvars' = dbvars /\ StreamsAlone')]_vars

C15_Witness ==
    /\ result.op # "none"
    /\ \E i, j \in DOMAIN streams :
          /\ streams[i].filters # streams[j].filters
          /\ streams[i].state = "suspended" /\ streams[j].state = "suspended"
          /\ streams[i].yielded # <<>> /\ streams[j].yielded # <<>>
          /\ streams[i].pos < streams[j].pos
          /\ streams[i].pos < Len(approaches)

====
